---------------------------- MODULE Spec2Model ----------------------------
(***************************************************************************)
(* Retrieval evaluation and metrics engine of retrieval_ensemble.py:       *)
(* ground-truth subset building, rank adjustment for junk images, average  *)
(* precision, precision/recall at fixed ranks, their aggregation, and the  *)
(* metrics file written by SaveMetricsFile and read by ReadMetricsFile.    *)
(*                                                                         *)
(* Python sequences are zero-indexed; a TLA+ sequence s holds the Python   *)
(* element s[k] at position k+1 (operator At).  Floating-point values are  *)
(* modelled as exact rationals [n, d] in lowest terms; NaN is 0/0 and an   *)
(* infinity is 1/0 or -1/0.                                                *)
(***************************************************************************)
EXTENDS Integers, Sequences, FiniteSets, TLC

VARIABLES
    apr,        \* frame of the running AdjustPositiveRanks call
    apr_entry,  \* the values positive_ranks held when the call was entered
    apr_entry_junk,  \* the values junk_ranks held when the call was entered
    rk_positive_ranks,     \* argument of the per-query metric functions
    rk_desired_pr_ranks,   \* argument of ComputePRAtRanks
    rk_average_precision,  \* result of ComputeAveragePrecision
    rk_pr,                 \* result of ComputePRAtRanks
    rk_called,             \* the functions that have returned
    cm,          \* frame of the running ComputeMetrics call
    cm_ok_empty, \* per query read so far: was its 'ok' array empty
    cm_adjusted, \* per query read so far: were 'ok' and 'junk' disjoint,
                 \* and the adjusted positive ranks of line 308
    gt_pc,            \* "raw", "read" or "parsed"
    gt_raw,           \* the 'gnd' records of the dataset file
    gt_ground_truth,  \* what ReadDatasetFile returned for them
    gt_parsed,        \* outcome of ParseEasyMediumHardGroundTruth
    dup,  \* one query with repeated 'ok' ids through ComputeMetrics
    par,  \* the loop body of ComputeMetrics run as one task per query
    smf,  \* frame of the running SaveMetricsFile call and the file it writes
    rmf,  \* frame of the running ReadMetricsFile call
    rmf_blocks  \* the blocks of the file that the call has read

adjustVars == <<apr, apr_entry, apr_entry_junk>>

rankVars == <<rk_positive_ranks, rk_desired_pr_ranks, rk_average_precision,
              rk_pr, rk_called>>

metricsVars == <<cm, cm_ok_empty, cm_adjusted>>

gtVars == <<gt_pc, gt_raw, gt_ground_truth, gt_parsed>>

dupVars == <<dup>>

orderVars == <<par>>

fileVars == <<smf, rmf, rmf_blocks>>

vars == <<adjustVars, rankVars, metricsVars, gtVars, dupVars, orderVars,
          fileVars>>

---------------------------------------------------------------------------
(* Bounds of the model. *)

\* Largest zero-indexed rank of the rank-adjustment inputs.
MaxRank == 3

\* Largest number of positives handed to the per-query metric functions.
MaxPositives == 3

\* Largest desired precision/recall rank handed to ComputePRAtRanks.
MaxDesiredRank == 4

\* Number of index images (columns of sorted_index_ids) in ComputeMetrics.
NumIndexImages == 3

\* Largest number of queries (rows of sorted_index_ids) in ComputeMetrics.
MaxQueries == 2

\* Largest one-indexed image identifier in the dataset file's ground truth.
MaxRawId == 2

\* Largest number of queries in the enumerated dataset files.
MaxFileQueries == 1

---------------------------------------------------------------------------
(* Helpers: zero-indexed access and sorted arrays. *)

At(s, k) == s[k + 1]

Min2(a, b) == IF a <= b THEN a ELSE b

SetMin(S) == CHOOSE x \in S : \A y \in S : x <= y

SetMax(S) == CHOOSE x \in S : \A y \in S : x >= y

\* The elements of a finite set of integers in ascending order: what
\* np.arange(n)[mask] yields for the positions the mask selects.
RECURSIVE SortedSeq(_)
SortedSeq(S) ==
    IF S = {} THEN <<>>
    ELSE LET m == SetMin(S) IN <<m>> \o SortedSeq(S \ {m})

Range(s) == {s[k] : k \in DOMAIN s}

Abs(x) == IF x < 0 THEN -x ELSE x

RECURSIVE GCD(_, _)
GCD(a, b) == IF b = 0 THEN a ELSE GCD(b, a % b)

\* Exact rationals in lowest terms with a positive denominator.
Rat(n, d) ==
    LET g == GCD(Abs(n), Abs(d))
        s == IF d < 0 THEN -1 ELSE 1
    IN  [n |-> (s * n) \div g, d |-> (s * d) \div g]

RZero == Rat(0, 1)

ROne == Rat(1, 1)

RAdd(a, b) == Rat(a.n * b.d + b.n * a.d, a.d * b.d)

RMul(a, b) == Rat(a.n * b.n, a.d * b.d)

RDivInt(a, k) == Rat(a.n, a.d * k)

RLeq(a, b) == a.n * b.d <= b.n * a.d

RECURSIVE RSum(_)
RSum(s) == IF s = <<>> THEN RZero ELSE RAdd(Head(s), RSum(Tail(s)))

---------------------------------------------------------------------------
(* AdjustPositiveRanks (lines 127-148), one step per control point.        *)
(* adjusted_positive_ranks is bound to the very array positive_ranks names *)
(* (line 140), so the frame holds one array for both names.                *)

APR_Frame(positive_ranks, junk_ranks) ==
    [pc |-> "check", positive_ranks |-> positive_ranks,
     junk_ranks |-> junk_ranks, i |-> 0, j |-> 0, positive_index |-> 0]

\* Lines 137-141: the empty-junk fast path, else start the scan with j = 0.
APR_Check(f) ==
    IF Len(f.junk_ranks) = 0
    THEN [f EXCEPT !.pc = "return"]
    ELSE [f EXCEPT !.pc = "for", !.j = 0, !.i = 0]

\* A scan that restarts the junk pointer for every positive.
APR_ForResetJ(f) ==
    IF f.i < Len(f.positive_ranks)
    THEN [f EXCEPT !.pc = "while", !.j = 0,
                   !.positive_index = At(f.positive_ranks, f.i)]
    ELSE [f EXCEPT !.pc = "return"]

\* Line 142: enumerate() reads the next element of the array as it is now.
APR_For(f) ==
    IF f.i < Len(f.positive_ranks)
    THEN [f EXCEPT !.pc = "while",
                   !.positive_index = At(f.positive_ranks, f.i)]
    ELSE [f EXCEPT !.pc = "return"]

\* A scan that advances the junk pointer at most once per positive.
APR_WhileAsIf(f) ==
    IF f.j < Len(f.junk_ranks) /\ f.positive_index > At(f.junk_ranks, f.j)
    THEN [f EXCEPT !.j = f.j + 1, !.pc = "subtract"]
    ELSE [f EXCEPT !.pc = "subtract"]

\* A scan that also skips a junk rank equal to the positive rank.
APR_WhileGeq(f) ==
    IF f.j < Len(f.junk_ranks) /\ f.positive_index >= At(f.junk_ranks, f.j)
    THEN [f EXCEPT !.j = f.j + 1]
    ELSE [f EXCEPT !.pc = "subtract"]

\* Lines 143-144: one evaluation of the while condition.
APR_While(f) ==
    IF f.j < Len(f.junk_ranks) /\ f.positive_index > At(f.junk_ranks, f.j)
    THEN [f EXCEPT !.j = f.j + 1]
    ELSE [f EXCEPT !.pc = "subtract"]

\* A subtraction of the number of all junk ranks, above the positive or not.
APR_SubtractAll(f) ==
    [f EXCEPT !.positive_ranks[f.i + 1] =
                  f.positive_ranks[f.i + 1] - Len(f.junk_ranks),
              !.i = f.i + 1, !.pc = "for"]

\* Line 146: in-place subtraction on the shared array, then the next i.
APR_Subtract(f) ==
    [f EXCEPT !.positive_ranks[f.i + 1] = f.positive_ranks[f.i + 1] - f.j,
              !.i = f.i + 1, !.pc = "for"]

APR_Step(f) ==
    CASE f.pc = "check"    -> APR_Check(f)
      [] f.pc = "for"      -> APR_For(f)
      [] f.pc = "while"    -> APR_While(f)
      [] f.pc = "subtract" -> APR_Subtract(f)
      [] OTHER             -> f

RECURSIVE APR_Run(_)
APR_Run(f) == IF f.pc = "return" THEN f ELSE APR_Run(APR_Step(f))

\* The value the call returns (lines 138 and 148).
AdjustPositiveRanks(positive_ranks, junk_ranks) ==
    APR_Run(APR_Frame(positive_ranks, junk_ranks)).positive_ranks

---------------------------------------------------------------------------
(* Specification of one AdjustPositiveRanks call.  The arguments are rank  *)
(* arrays as ComputeMetrics builds them (lines 304-307): ascending         *)
(* positions of a ranking, without repetition; the positive and the junk   *)
(* positions may overlap, since ok and junk are never checked to be        *)
(* disjoint.                                                               *)

RankArrays == {SortedSeq(S) : S \in SUBSET (0 .. MaxRank)}

AdjustIdle ==
    /\ apr = [APR_Frame(<<>>, <<>>) EXCEPT !.pc = "idle"]
    /\ apr_entry = <<>>
    /\ apr_entry_junk = <<>>

NoPR == [precisions |-> <<>>, recalls |-> <<>>]

RankIdle ==
    /\ rk_positive_ranks = <<>>
    /\ rk_desired_pr_ranks = <<>>
    /\ rk_average_precision = RZero
    /\ rk_pr = NoPR
    /\ rk_called = {}

MetricsIdle ==
    /\ cm = [pc |-> "idle"]
    /\ cm_ok_empty = <<>>
    /\ cm_adjusted = <<>>

DupIdle == dup = [pc |-> "idle"]

OrderIdle == par = [pc |-> "idle"]

FileIdle ==
    /\ smf = [pc |-> "idle"]
    /\ rmf = [pc |-> "idle"]
    /\ rmf_blocks = <<>>

LaterIdle == DupIdle /\ OrderIdle /\ FileIdle

GtIdle ==
    /\ gt_pc = "idle"
    /\ gt_raw = <<>>
    /\ gt_ground_truth = <<>>
    /\ gt_parsed = [pc |-> "idle"]

AdjustInit ==
    /\ \E p \in RankArrays, q \in RankArrays :
          /\ apr = APR_Frame(p, q)
          /\ apr_entry = p
          /\ apr_entry_junk = q
    /\ RankIdle
    /\ MetricsIdle
    /\ GtIdle
    /\ LaterIdle

AdjustCheck ==
    /\ apr.pc = "check"
    /\ apr' = APR_Check(apr)
    /\ UNCHANGED <<apr_entry, apr_entry_junk, rankVars, metricsVars, gtVars,
                   dupVars, orderVars, fileVars>>

AdjustFor ==
    /\ apr.pc = "for"
    /\ apr' = APR_For(apr)
    /\ UNCHANGED <<apr_entry, apr_entry_junk, rankVars, metricsVars, gtVars,
                   dupVars, orderVars, fileVars>>

AdjustWhile ==
    /\ apr.pc = "while"
    /\ apr' = APR_While(apr)
    /\ UNCHANGED <<apr_entry, apr_entry_junk, rankVars, metricsVars, gtVars,
                   dupVars, orderVars, fileVars>>

AdjustSubtract ==
    /\ apr.pc = "subtract"
    /\ apr' = APR_Subtract(apr)
    /\ UNCHANGED <<apr_entry, apr_entry_junk, rankVars, metricsVars, gtVars,
                   dupVars, orderVars, fileVars>>

AdjustNext == AdjustCheck \/ AdjustFor \/ AdjustWhile \/ AdjustSubtract

SpecAdjust == AdjustInit /\ [][AdjustNext]_vars

---------------------------------------------------------------------------
(* Claims about AdjustPositiveRanks. *)

JunkBelow(junk, r) == Cardinality({k \in DOMAIN junk : junk[k] < r})

Disjoint(s, t) == Range(s) \cap Range(t) = {}

\* C1: for strictly increasing positive_ranks and junk_ranks sharing no
\* element, the returned sequence has the length of positive_ranks and its
\* i-th element is the entry value of positive_ranks[i] minus the number of
\* junk ranks strictly below it; empty junk returns the input, and positive
\* [0,2] with junk [1] gives [0,1].
C1_AdjustedRanks ==
    (apr.pc = "return" /\ Disjoint(apr_entry, apr.junk_ranks)) =>
        /\ Len(apr.positive_ranks) = Len(apr_entry)
        /\ \A k \in DOMAIN apr_entry :
              apr.positive_ranks[k] =
                  apr_entry[k] - JunkBelow(apr.junk_ranks, apr_entry[k])
        /\ (apr.junk_ranks = <<>> => apr.positive_ranks = apr_entry)
        /\ (apr_entry = <<0, 2>> /\ apr.junk_ranks = <<1>>
               => apr.positive_ranks = <<0, 1>>)

\* A finished call on positive [0,3] and junk [1,2]: two junk ranks lie
\* below the second positive.
C1_Witness ==
    /\ apr.pc = "return"
    /\ apr_entry = <<0, 3>>
    /\ apr.junk_ranks = <<1, 2>>
    /\ apr.positive_ranks = <<0, 1>>

\* C2: for ascending zero-indexed positive_ranks and junk_ranks (overlapping
\* or not), every element of the result is non-negative and the result is
\* non-decreasing, position k of the result answering position k of the input.
C2_NonNegativeNonDecreasing ==
    apr.pc = "return" =>
        /\ Len(apr.positive_ranks) = Len(apr_entry)
        /\ \A k \in DOMAIN apr.positive_ranks : apr.positive_ranks[k] >= 0
        /\ \A k \in DOMAIN apr.positive_ranks :
              k > 1 => apr.positive_ranks[k - 1] <= apr.positive_ranks[k]

\* A finished call whose positive and junk ranks overlap and whose result
\* repeats a rank.
C2_Witness ==
    /\ apr.pc = "return"
    /\ apr_entry = <<0, 1, 3>>
    /\ apr.junk_ranks = <<0, 2>>
    /\ apr.positive_ranks = <<0, 0, 1>>

\* C16: AdjustPositiveRanks leaves its inputs as they were: after a call
\* with non-empty junk_ranks returns, the caller's positive_ranks and
\* junk_ranks hold the values they held before the call.
C16_InputsUnchanged ==
    (apr.pc = "return" /\ apr_entry_junk # <<>>) =>
        /\ apr.positive_ranks = apr_entry
        /\ apr.junk_ranks = apr_entry_junk

\* Steps left before the call returns, at most: three per positive still to
\* adjust, one per junk rank still to skip, and the rest of the iteration.
APR_Measure(f) ==
    3 * (Len(f.positive_ranks) - f.i) + (Len(f.junk_ranks) - f.j)
        + (CASE f.pc = "check" -> 3 [] f.pc = "for" -> 2
             [] f.pc = "while" -> 1 [] OTHER -> 0)

\* C20: the scan is a single forward two-pointer sweep that terminates: the
\* junk pointer j never decreases and never exceeds len(junk_ranks), so it
\* advances at most len(junk_ranks) times; every step brings the return
\* nearer; and the array changes only where line 146 adjusts position i,
\* after which i moves to the next position, so each positive is adjusted
\* once, in index order.
C20_ForwardSweep ==
    /\ [](/\ 0 <= apr.j /\ apr.j <= Len(apr.junk_ranks)
          /\ 0 <= apr.i /\ apr.i <= Len(apr.positive_ranks)
          /\ APR_Measure(apr) >= 0
          /\ (apr.pc # "return" => ENABLED AdjustNext)
          /\ (apr.pc = "return" /\ apr.junk_ranks # <<>>
                 => apr.i = Len(apr.positive_ranks)))
    /\ [][/\ apr'.j >= apr.j
          /\ apr'.j <= apr.j + 1
          /\ apr'.i >= apr.i
          /\ APR_Measure(apr') < APR_Measure(apr)
          /\ (apr'.i # apr.i =>
                 /\ apr.pc = "subtract"
                 /\ apr'.i = apr.i + 1
                 /\ \A k \in DOMAIN apr.positive_ranks :
                       k # apr.i + 1 =>
                           apr'.positive_ranks[k] = apr.positive_ranks[k])
          /\ (apr'.i = apr.i => apr'.positive_ranks = apr.positive_ranks)
         ]_vars

\* A finished sweep over three positives and two junk ranks, the pointer at
\* the end of the junk ranks.
C20_Witness ==
    /\ apr.pc = "return"
    /\ apr_entry = <<0, 2, 3>>
    /\ apr.junk_ranks = <<0, 1>>
    /\ apr.j = 2
    /\ apr.i = 3

---------------------------------------------------------------------------
(* ComputeAveragePrecision (lines 151-188). *)

\* Lines 180-183: precision just before the positive at position i.
AP_LeftPrecision(i, rank) == IF rank = 0 THEN ROne ELSE Rat(i, rank)

\* Line 185: precision just after the positive at position i.
AP_RightPrecision(i, rank) == Rat(i + 1, rank + 1)

\* An increment that forgets to halve the sum of the two precisions.
AP_TermNoHalf(i, rank, recall_step) ==
    RMul(RAdd(AP_LeftPrecision(i, rank), AP_RightPrecision(i, rank)),
         recall_step)

\* The finite-sum convention: the precision after the positive alone.
AP_TermFiniteSum(i, rank, recall_step) ==
    RMul(AP_RightPrecision(i, rank), recall_step)

\* Line 186: the increment of one positive.
AP_Term(i, rank, recall_step) ==
    RDivInt(RMul(RAdd(AP_LeftPrecision(i, rank), AP_RightPrecision(i, rank)),
                 recall_step), 2)

\* Lines 179-186: the loop from position i on, acc the running sum.
RECURSIVE AP_Loop(_, _, _, _)
AP_Loop(ranks, i, recall_step, acc) ==
    IF i >= Len(ranks) THEN acc
    ELSE AP_Loop(ranks, i + 1, recall_step,
                 RAdd(acc, AP_Term(i, At(ranks, i), recall_step)))

ComputeAveragePrecision(ranks) ==
    IF Len(ranks) = 0 THEN RZero
    ELSE AP_Loop(ranks, 0, Rat(1, Len(ranks)), RZero)

---------------------------------------------------------------------------
(* ComputePRAtRanks (lines 191-234). *)

\* Line 223: positive_ranks + 1.
PR_OneIndexed(ranks) == [k \in DOMAIN ranks |-> ranks[k] + 1]

\* np.sum(one_indexed <= bound): the number of entries within the bound.
RECURSIVE PR_CountLeq(_, _)
PR_CountLeq(one_indexed, bound) ==
    IF one_indexed = <<>> THEN 0
    ELSE (IF Head(one_indexed) <= bound THEN 1 ELSE 0)
         + PR_CountLeq(Tail(one_indexed), bound)

\* A precision rank that is not clamped to the last positive.
PR_PrecisionRankNoClamp(one_indexed, desired_pr_rank) == desired_pr_rank

\* Line 230: min(max(positive_ranks_one_indexed), desired_pr_rank).
PR_PrecisionRank(one_indexed, desired_pr_rank) ==
    Min2(SetMax(Range(one_indexed)), desired_pr_rank)

\* Lines 225-226.
PR_Recall(one_indexed, desired_pr_rank) ==
    Rat(PR_CountLeq(one_indexed, desired_pr_rank), Len(one_indexed))

\* Lines 230-232.
PR_Precision(one_indexed, desired_pr_rank) ==
    LET precision_rank == PR_PrecisionRank(one_indexed, desired_pr_rank)
    IN  Rat(PR_CountLeq(one_indexed, precision_rank), precision_rank)

\* The pair (precisions, recalls), each of length len(desired_pr_ranks).
ComputePRAtRanks(ranks, desired) ==
    IF Len(ranks) = 0
    THEN [precisions |-> [k \in DOMAIN desired |-> RZero],
          recalls    |-> [k \in DOMAIN desired |-> RZero]]
    ELSE [precisions |->
              [k \in DOMAIN desired |->
                  PR_Precision(PR_OneIndexed(ranks), desired[k])],
          recalls |->
              [k \in DOMAIN desired |->
                  PR_Recall(PR_OneIndexed(ranks), desired[k])]]

---------------------------------------------------------------------------
(* Specification of the per-query metric functions.  Their argument is an  *)
(* ascending array of zero-indexed ranks as AdjustPositiveRanks returns it *)
(* to ComputeMetrics (line 309): it repeats a rank when ok and junk        *)
(* overlap.  The documented example of ComputePRAtRanks is added to the    *)
(* inputs.                                                                 *)

SeqsUpTo(S, n) == UNION {[1 .. m -> S] : m \in 0 .. n}

IsAscending(s) == \A k \in DOMAIN s : k > 1 => s[k - 1] <= s[k]

IsStrictlyAscending(s) == \A k \in DOMAIN s : k > 1 => s[k - 1] < s[k]

AscendingRanks ==
    {s \in SeqsUpTo(0 .. MaxRank, MaxPositives) : IsAscending(s)}
        \cup {<<0, 7>>}

DesiredRankLists == SeqsUpTo(1 .. MaxDesiredRank, 2) \cup {<<10>>}

RankInit ==
    /\ rk_positive_ranks \in AscendingRanks
    /\ rk_desired_pr_ranks \in DesiredRankLists
    /\ rk_average_precision = RZero
    /\ rk_pr = NoPR
    /\ rk_called = {}
    /\ AdjustIdle
    /\ MetricsIdle
    /\ GtIdle
    /\ LaterIdle

RankComputeAveragePrecision ==
    /\ "ap" \notin rk_called
    /\ rk_average_precision' = ComputeAveragePrecision(rk_positive_ranks)
    /\ rk_called' = rk_called \cup {"ap"}
    /\ UNCHANGED <<rk_positive_ranks, rk_desired_pr_ranks, rk_pr, adjustVars,
                   metricsVars, gtVars,
                   dupVars, orderVars, fileVars>>

RankComputePRAtRanks ==
    /\ "pr" \notin rk_called
    /\ rk_pr' = ComputePRAtRanks(rk_positive_ranks, rk_desired_pr_ranks)
    /\ rk_called' = rk_called \cup {"pr"}
    /\ UNCHANGED <<rk_positive_ranks, rk_desired_pr_ranks,
                   rk_average_precision, adjustVars, metricsVars,
                   gtVars,
                   dupVars, orderVars, fileVars>>

RankNext == RankComputeAveragePrecision \/ RankComputePRAtRanks

SpecRank == RankInit /\ [][RankNext]_vars

---------------------------------------------------------------------------
(* Claims about ComputeAveragePrecision and ComputePRAtRanks. *)

\* The trapezoid of the claim for the positive at zero-indexed position i.
TrapezoidTerm(ranks, i) ==
    LET r == At(ranks, i)
        left == IF r = 0 THEN Rat(1, 1) ELSE Rat(i, r)
        right == Rat(i + 1, r + 1)
        half == Rat(left.n * right.d + right.n * left.d, 2 * left.d * right.d)
    IN  Rat(half.n, half.d * Len(ranks))

TrapezoidSum(ranks) ==
    RSum([k \in DOMAIN ranks |-> TrapezoidTerm(ranks, k - 1)])

\* C3: ComputeAveragePrecision returns 0 for an empty positive_ranks and
\* otherwise exactly the sum over i of
\* ((1 if r_i = 0 else i / r_i) + (i+1)/(r_i+1)) / 2 * (1/len), over exact
\* rationals.
C3_TrapezoidalAveragePrecision ==
    "ap" \in rk_called =>
        /\ (rk_positive_ranks = <<>> => rk_average_precision = RZero)
        /\ (rk_positive_ranks # <<>> =>
               rk_average_precision = TrapezoidSum(rk_positive_ranks))

\* The average precision of positives at ranks 1 and 3 is
\* ((0 + 1/2)/2 + (1/3 + 2/4)/2) / 2 = 1/3, the finite sum would give 1/2.
C3_Witness ==
    /\ "ap" \in rk_called
    /\ rk_positive_ranks = <<1, 3>>
    /\ rk_average_precision = Rat(1, 3)

InUnitInterval(x) == RLeq(RZero, x) /\ RLeq(x, ROne)

\* C4 as stated: for every ascending zero-indexed integer sequence the
\* average precision lies in [0,1].
C4_Original ==
    "ap" \in rk_called => InUnitInterval(rk_average_precision)

\* C4 as amended: for every strictly ascending zero-indexed integer sequence
\* (no rank repeated) the average precision lies in [0,1].
C4_UnitIntervalStrict ==
    ("ap" \in rk_called /\ IsStrictlyAscending(rk_positive_ranks))
        => InUnitInterval(rk_average_precision)

\* A strictly ascending argument whose average precision is strictly inside
\* the interval.
C4_Witness ==
    /\ rk_positive_ranks = <<0, 2, 3>>
    /\ "ap" \in rk_called
    /\ rk_average_precision # ROne
    /\ InUnitInterval(rk_average_precision)

\* p = positive_ranks + 1 of the claim, and its counts.
ClaimCount(ranks, bound) ==
    Cardinality({k \in DOMAIN ranks : ranks[k] + 1 <= bound})

ClaimClamp(ranks, k) ==
    LET top == SetMax({ranks[x] + 1 : x \in DOMAIN ranks})
    IN  IF k < top THEN k ELSE top

\* C5: ComputePRAtRanks returns two vectors of length len(desired_ranks),
\* all zero for an empty positive_ranks; otherwise recalls[j] is the number
\* of one-indexed positives <= k over len(positive_ranks) and precisions[j]
\* the number of one-indexed positives <= m over m, m = min(max(p), k);
\* positive_ranks [0,7] with desired_ranks [10] gives precision 1/4, recall 1.
C5_PrecisionRecallAtRanks ==
    "pr" \in rk_called =>
        /\ Len(rk_pr.precisions) = Len(rk_desired_pr_ranks)
        /\ Len(rk_pr.recalls) = Len(rk_desired_pr_ranks)
        /\ \A j \in DOMAIN rk_desired_pr_ranks :
              IF rk_positive_ranks = <<>>
              THEN /\ rk_pr.precisions[j] = Rat(0, 1)
                   /\ rk_pr.recalls[j] = Rat(0, 1)
              ELSE LET k == rk_desired_pr_ranks[j]
                       m == ClaimClamp(rk_positive_ranks, k)
                   IN  /\ rk_pr.recalls[j] =
                              Rat(ClaimCount(rk_positive_ranks, k),
                                  Len(rk_positive_ranks))
                       /\ rk_pr.precisions[j] =
                              Rat(ClaimCount(rk_positive_ranks, m), m)
        /\ (rk_positive_ranks = <<0, 7>> /\ rk_desired_pr_ranks = <<10>>
               => /\ rk_pr.precisions = <<Rat(1, 4)>>
                  /\ rk_pr.recalls = <<Rat(1, 1)>>)

\* The documented example has been computed.
C5_Witness ==
    /\ rk_positive_ranks = <<0, 7>>
    /\ rk_desired_pr_ranks = <<10>>
    /\ "pr" \in rk_called
    /\ rk_pr.precisions = <<Rat(1, 4)>>

---------------------------------------------------------------------------
(* ComputeMetrics (lines 237-326).                                         *)

NaN == [n |-> 0, d |-> 0]

\* NumPy division of a float by an integer: x/0 is nan or inf, no exception.
NumpyDivide(a, k) ==
    IF k # 0 THEN RDivInt(a, k)
    ELSE [n |-> (IF a.n > 0 THEN 1 ELSE IF a.n < 0 THEN -1 ELSE 0), d |-> 0]

RECURSIVE InsertSorted(_, _)
InsertSorted(x, s) ==
    IF s = <<>> THEN <<x>>
    ELSE IF x <= Head(s) THEN <<x>> \o s
    ELSE <<Head(s)>> \o InsertSorted(x, Tail(s))

\* sorted(list): a new ascending list of the same elements.
RECURSIVE Sorted(_)
Sorted(s) == IF s = <<>> THEN <<>> ELSE InsertSorted(Head(s), Sorted(Tail(s)))

\* A check against the last element of the list as given, unsorted.
CM_LargestDesiredRankUnsorted(desired) == At(desired, Len(desired) - 1)

\* Lines 278-280: sorted_desired_pr_ranks[-1].
CM_LargestDesiredRank(desired) == At(Sorted(desired), Len(desired) - 1)

\* The rank of each entry of ids looked up on its own, repeated entries
\* giving repeated ranks.
CM_RanksPerId(row, ids) ==
    Sorted([k \in DOMAIN ids |->
               CHOOSE r \in 0 .. Len(row) - 1 : At(row, r) = ids[k]])

\* Lines 304-307: np.arange(num_index_images)[np.in1d(row, ids)], the
\* ascending positions of the row whose id is a member of ids.
CM_Ranks(row, ids) ==
    SortedSeq({r \in 0 .. Len(row) - 1 : At(row, r) \in Range(ids)})

\* Lines 304-313: the metrics of one query with a non-empty 'ok' array.
CM_QueryMetrics(row, ok, junk, desired) ==
    LET adjusted_positive_ranks ==
            AdjustPositiveRanks(CM_Ranks(row, ok), CM_Ranks(row, junk))
        pr == ComputePRAtRanks(adjusted_positive_ranks, desired)
    IN  [average_precision |->
             ComputeAveragePrecision(adjusted_positive_ranks),
         precisions |-> pr.precisions,
         recalls |-> pr.recalls]

VecAdd(a, b) == [k \in DOMAIN a |-> RAdd(a[k], b[k])]

\* Lines 275-292.  An empty desired_pr_ranks makes sorted(...)[-1] raise
\* IndexError; a largest rank above num_index_images raises ValueError; no
\* output array exists yet in either case.
CM_Start(num_queries, num_index_images, desired) ==
    LET base == [pc |-> "loop", num_queries |-> num_queries,
                 num_index_images |-> num_index_images,
                 desired_pr_ranks |-> desired, i |-> 0,
                 mean_average_precision |-> RZero,
                 mean_ap_type |-> "float",
                 mean_precisions |-> <<>>, mean_recalls |-> <<>>,
                 average_precisions |-> <<>>, precisions |-> <<>>,
                 recalls |-> <<>>, num_empty_gt_queries |-> 0,
                 error_rank |-> 0, error_images |-> 0]
        zeros == [k \in DOMAIN desired |-> RZero]
    IN  IF Len(desired) = 0 THEN [base EXCEPT !.pc = "IndexError"]
        ELSE IF CM_LargestDesiredRank(desired) > num_index_images
        THEN [base EXCEPT !.pc = "ValueError",
                          !.error_rank = CM_LargestDesiredRank(desired),
                          !.error_images = num_index_images]
        ELSE [base EXCEPT
                  !.mean_precisions = zeros, !.mean_recalls = zeros,
                  !.average_precisions = [q \in 1 .. num_queries |-> RZero],
                  !.precisions = [q \in 1 .. num_queries |-> zeros],
                  !.recalls = [q \in 1 .. num_queries |-> zeros]]

\* Lines 297-302: query i has no positive.
CM_EmptyQuery(f) ==
    [f EXCEPT !.average_precisions[f.i + 1] = NaN,
              !.precisions[f.i + 1] = [k \in DOMAIN f.desired_pr_ranks |-> NaN],
              !.recalls[f.i + 1] = [k \in DOMAIN f.desired_pr_ranks |-> NaN],
              !.num_empty_gt_queries = f.num_empty_gt_queries + 1,
              !.i = f.i + 1]

\* A loop body that stores the query's average precision as the running
\* sum instead of adding it.
CM_ValidQueryOverwrite(f, m) ==
    [f EXCEPT !.average_precisions[f.i + 1] = m.average_precision,
              !.precisions[f.i + 1] = m.precisions,
              !.recalls[f.i + 1] = m.recalls,
              !.mean_average_precision = m.average_precision,
              !.mean_ap_type = "float64",
              !.mean_precisions = VecAdd(f.mean_precisions, m.precisions),
              !.mean_recalls = VecAdd(f.mean_recalls, m.recalls),
              !.i = f.i + 1]

\* Lines 311-317: query i has positives; its metrics m are stored in slot
\* i and added to the running sums.  Adding the NumPy element to the Python
\* float makes mean_average_precision a NumPy float.
CM_ValidQuery(f, m) ==
    [f EXCEPT !.average_precisions[f.i + 1] = m.average_precision,
              !.precisions[f.i + 1] = m.precisions,
              !.recalls[f.i + 1] = m.recalls,
              !.mean_average_precision =
                  RAdd(f.mean_average_precision, m.average_precision),
              !.mean_ap_type = "float64",
              !.mean_precisions = VecAdd(f.mean_precisions, m.precisions),
              !.mean_recalls = VecAdd(f.mean_recalls, m.recalls),
              !.i = f.i + 1]

\* Lines 293-317: one iteration of the loop over the queries; ok_empty
\* tells whether ground_truth[i]['ok'] has size 0 (line 297), m is what
\* lines 304-313 compute for the query otherwise.
CM_Query(f, ok_empty, m) ==
    IF ok_empty THEN CM_EmptyQuery(f) ELSE CM_ValidQuery(f, m)

\* A denominator that counts the empty queries too.
CM_NumValidQueriesAll(f) == f.num_queries

\* Line 320.
CM_NumValidQueries(f) == f.num_queries - f.num_empty_gt_queries

\* A division that follows NumPy's rule whatever the type of the dividend.
CM_NormalizeNumpyOnly(f) ==
    LET num_valid_queries == CM_NumValidQueries(f)
    IN  [f EXCEPT
            !.pc = "returned",
            !.mean_average_precision =
                NumpyDivide(f.mean_average_precision, num_valid_queries),
            !.mean_precisions =
                [k \in DOMAIN f.mean_precisions |->
                    NumpyDivide(f.mean_precisions[k], num_valid_queries)],
            !.mean_recalls =
                [k \in DOMAIN f.mean_recalls |->
                    NumpyDivide(f.mean_recalls[k], num_valid_queries)]]

\* Lines 320-326.  mean_average_precision is still the Python float 0.0
\* when no query had positives, and a Python float divided by the int 0
\* raises ZeroDivisionError (line 321); a NumPy float or array divided by 0
\* gives nan or inf.
CM_Normalize(f) ==
    LET num_valid_queries == CM_NumValidQueries(f)
    IN  IF num_valid_queries = 0 /\ f.mean_ap_type = "float"
        THEN [f EXCEPT !.pc = "ZeroDivisionError"]
        ELSE [f EXCEPT
                !.pc = "returned",
                !.mean_average_precision =
                    NumpyDivide(f.mean_average_precision, num_valid_queries),
                !.mean_precisions =
                    [k \in DOMAIN f.mean_precisions |->
                        NumpyDivide(f.mean_precisions[k], num_valid_queries)],
                !.mean_recalls =
                    [k \in DOMAIN f.mean_recalls |->
                        NumpyDivide(f.mean_recalls[k], num_valid_queries)]]

---------------------------------------------------------------------------
(* Specification of one ComputeMetrics call.  The shape and the desired    *)
(* ranks are fixed by the call; row i of sorted_index_ids and entry i of   *)
(* ground_truth are first read in iteration i of the loop and are drawn    *)
(* there.  A row is a permutation of all index ids; 'ok' and 'junk' are    *)
(* any arrays of index ids, overlapping or not.                            *)

IndexIds == 0 .. NumIndexImages - 1

Rankings ==
    {row \in [1 .. NumIndexImages -> IndexIds] :
        \A x, y \in 1 .. NumIndexImages : x # y => row[x] # row[y]}

IdArrays == {SortedSeq(S) : S \in SUBSET IndexIds}

\* Desired rank lists in both orders, within and beyond the index size.
MetricsDesiredRankLists ==
    {<<>>, <<1>>, <<NumIndexImages>>, <<1, NumIndexImages>>,
     <<NumIndexImages, 1>>, <<NumIndexImages + 1>>,
     <<NumIndexImages + 1, 1>>, <<1, NumIndexImages + 1>>}

NoMetrics ==
    [average_precision |-> RZero, precisions |-> <<>>, recalls |-> <<>>]

\* What one iteration reads and computes, for every row, ground-truth entry
\* and desired rank list: evaluated once, the iterations draw from it.
QueryCases ==
    {[desired |-> desired, ok_empty |-> Len(ok) = 0,
      adjusted |->
          [disjoint |-> Range(ok) \cap Range(junk) = {},
           ranks |-> IF Len(ok) = 0 THEN <<>>
                     ELSE AdjustPositiveRanks(CM_Ranks(row, ok),
                                              CM_Ranks(row, junk))],
      metrics |-> IF Len(ok) = 0 THEN NoMetrics
                  ELSE CM_QueryMetrics(row, ok, junk, desired)] :
        row \in Rankings, ok \in IdArrays, junk \in IdArrays,
        desired \in MetricsDesiredRankLists}

MetricsInit ==
    /\ cm = [pc |-> "call"]
    /\ cm_ok_empty = <<>>
    /\ cm_adjusted = <<>>
    /\ AdjustIdle
    /\ RankIdle
    /\ GtIdle
    /\ LaterIdle

MetricsStart ==
    /\ cm.pc = "call"
    /\ \E num_queries \in 0 .. MaxQueries, desired \in MetricsDesiredRankLists :
          cm' = CM_Start(num_queries, NumIndexImages, desired)
    /\ UNCHANGED <<cm_ok_empty, cm_adjusted, adjustVars, rankVars, gtVars,
                   dupVars, orderVars, fileVars>>

MetricsQuery ==
    /\ cm.pc = "loop"
    /\ cm.i < cm.num_queries
    /\ \E case \in QueryCases :
          /\ case.desired = cm.desired_pr_ranks
          /\ cm' = CM_Query(cm, case.ok_empty, case.metrics)
          /\ cm_ok_empty' = Append(cm_ok_empty, case.ok_empty)
          /\ cm_adjusted' = Append(cm_adjusted, case.adjusted)
    /\ UNCHANGED <<adjustVars, rankVars, gtVars,
                   dupVars, orderVars, fileVars>>

MetricsNormalize ==
    /\ cm.pc = "loop"
    /\ cm.i = cm.num_queries
    /\ cm' = CM_Normalize(cm)
    /\ UNCHANGED <<cm_ok_empty, cm_adjusted, adjustVars, rankVars, gtVars,
                   dupVars, orderVars, fileVars>>

MetricsNext == MetricsStart \/ MetricsQuery \/ MetricsNormalize

SpecMetrics == MetricsInit /\ [][MetricsNext]_vars

---------------------------------------------------------------------------
(* Claims about ComputeMetrics. *)

CM_Started == cm.pc \notin {"call"}

CM_Ended == cm.pc \notin {"call", "loop"}

CM_Errors == {"IndexError", "ValueError", "ZeroDivisionError"}

IsNaN(x) == x.d = 0 /\ x.n = 0

NonEmptyQueries == {q \in DOMAIN cm_ok_empty : ~cm_ok_empty[q]}

\* The sum of the values at the non-empty queries read so far.
RECURSIVE SumOver(_, _)
SumOver(values, Q) ==
    IF Q = {} THEN Rat(0, 1)
    ELSE LET q == SetMin(Q)
         IN  RAdd(values[q], SumOver(values, Q \ {q}))

Column(matrix, k) == [q \in DOMAIN matrix |-> matrix[q][k]]

\* C6: every query whose ok set is empty gets NaN as its per-query AP and
\* as every per-query precision and recall entry, adds nothing to the
\* running sums and is not counted in the denominator: with at least one
\* non-empty query, mean_ap is the sum of the per-query APs of the non-empty
\* queries over (Q minus the number of empty queries), and likewise
\* element-wise for the mean precision and recall vectors.
C6_EmptyQueriesExcluded ==
    cm.pc \in {"loop", "returned"} =>
        /\ \A q \in DOMAIN cm_ok_empty :
              cm_ok_empty[q] =>
                  /\ IsNaN(cm.average_precisions[q])
                  /\ \A k \in DOMAIN cm.desired_pr_ranks :
                        /\ IsNaN(cm.precisions[q][k])
                        /\ IsNaN(cm.recalls[q][k])
        /\ cm.pc = "loop" =>
              /\ cm.mean_average_precision =
                     SumOver(cm.average_precisions, NonEmptyQueries)
              /\ \A k \in DOMAIN cm.desired_pr_ranks :
                    /\ cm.mean_precisions[k] =
                           SumOver(Column(cm.precisions, k), NonEmptyQueries)
                    /\ cm.mean_recalls[k] =
                           SumOver(Column(cm.recalls, k), NonEmptyQueries)
        /\ (cm.pc = "returned" /\ NonEmptyQueries # {}) =>
              LET empties == Cardinality({q \in DOMAIN cm_ok_empty :
                                             cm_ok_empty[q]})
                  valid == cm.num_queries - empties
              IN  /\ Len(cm_ok_empty) = cm.num_queries
                  /\ cm.mean_average_precision =
                         RDivInt(SumOver(cm.average_precisions,
                                         NonEmptyQueries), valid)
                  /\ \A k \in DOMAIN cm.desired_pr_ranks :
                        /\ cm.mean_precisions[k] =
                               RDivInt(SumOver(Column(cm.precisions, k),
                                               NonEmptyQueries), valid)
                        /\ cm.mean_recalls[k] =
                               RDivInt(SumOver(Column(cm.recalls, k),
                                               NonEmptyQueries), valid)

\* A returned call on two queries, the first empty, whose mean AP is the
\* second query's AP of 19/24 alone.
C6_Witness ==
    /\ cm.pc = "returned"
    /\ cm_ok_empty = <<TRUE, FALSE>>
    /\ IsNaN(cm.average_precisions[1])
    /\ cm.average_precisions[2] = Rat(19, 24)
    /\ cm.mean_average_precision = Rat(19, 24)

\* C7: for any desired_ranks list, in any order, whose largest element
\* exceeds the number N of index images, ComputeMetrics fails with an error
\* naming that largest rank and N, before any per-query metric is computed
\* and without a result; when the largest element is <= N the error is not
\* raised.
C7_RankCheckFirst ==
    (CM_Started /\ cm.desired_pr_ranks # <<>>) =>
        LET largest == SetMax(Range(cm.desired_pr_ranks))
        IN  /\ largest > cm.num_index_images =>
                  /\ cm.pc = "ValueError"
                  /\ cm.error_rank = largest
                  /\ cm.error_images = cm.num_index_images
                  /\ cm.i = 0
                  /\ cm.average_precisions = <<>>
                  /\ cm.precisions = <<>>
                  /\ cm.recalls = <<>>
                  /\ cm_ok_empty = <<>>
            /\ largest <= cm.num_index_images => cm.pc # "ValueError"

\* The error raised for a list whose largest rank comes first.
C7_Witness ==
    /\ cm.pc = "ValueError"
    /\ cm.desired_pr_ranks = <<NumIndexImages + 1, 1>>
    /\ cm.error_rank = NumIndexImages + 1
    /\ cm.error_images = NumIndexImages

\* C8: when no query has a non-empty ok set (Q = 0 included) ComputeMetrics
\* ends in an error outcome; whenever it returns, some query was non-empty
\* and no aggregate mean is NaN or infinite.
C8_NoValidQueryIsAnError ==
    CM_Ended =>
        /\ (\A q \in DOMAIN cm_ok_empty : cm_ok_empty[q]) =>
              cm.pc \in CM_Errors
        /\ cm.pc = "returned" =>
              /\ Len(cm_ok_empty) = cm.num_queries
              /\ NonEmptyQueries # {}
              /\ cm.mean_average_precision.d # 0
              /\ \A k \in DOMAIN cm.desired_pr_ranks :
                    /\ cm.mean_precisions[k].d # 0
                    /\ cm.mean_recalls[k].d # 0

\* Two queries, both empty, and a rank list that passes the check: the
\* division of line 321 raises.
C8_Witness ==
    /\ cm.pc = "ZeroDivisionError"
    /\ cm.num_queries = 2
    /\ cm_ok_empty = <<TRUE, TRUE>>
    /\ cm.desired_pr_ranks = <<NumIndexImages, 1>>

\* C21: in ComputeMetrics, for every permutation row and every query with a
\* non-empty ok array disjoint from its junk array, the adjusted positive
\* ranks are strictly increasing with adjusted[i] >= i, the query's average
\* precision and each of its precisions and recalls lie in [0,1], and its
\* recall does not decrease as the desired rank k grows; when every such
\* query of a call that returns is of this kind, the means lie in [0,1].
C21_DisjointQueriesInUnitInterval ==
    /\ \A q \in DOMAIN cm_adjusted :
          (~cm_ok_empty[q] /\ cm_adjusted[q].disjoint) =>
              LET ranks == cm_adjusted[q].ranks
                  ks == cm.desired_pr_ranks
              IN  /\ ranks # <<>>
                  /\ IsStrictlyAscending(ranks)
                  /\ \A i \in 0 .. Len(ranks) - 1 : At(ranks, i) >= i
                  /\ InUnitInterval(cm.average_precisions[q])
                  /\ \A k \in DOMAIN ks :
                        /\ InUnitInterval(cm.precisions[q][k])
                        /\ InUnitInterval(cm.recalls[q][k])
                  /\ \A a, b \in DOMAIN ks :
                        ks[a] <= ks[b] =>
                            RLeq(cm.recalls[q][a], cm.recalls[q][b])
    /\ (/\ cm.pc = "returned"
        /\ \A q \in NonEmptyQueries : cm_adjusted[q].disjoint) =>
           /\ InUnitInterval(cm.mean_average_precision)
           /\ \A k \in DOMAIN cm.desired_pr_ranks :
                 /\ InUnitInterval(cm.mean_precisions[k])
                 /\ InUnitInterval(cm.mean_recalls[k])

\* A returned call on two queries, the first with junk ranks below both of
\* its positives (ranks 1 and 2 become 0 and 1), the second with its one
\* positive at the last rank and no junk.
C21_Witness ==
    /\ cm.pc = "returned"
    /\ cm.desired_pr_ranks = <<NumIndexImages, 1>>
    /\ cm_ok_empty = <<FALSE, FALSE>>
    /\ cm_adjusted = <<[disjoint |-> TRUE, ranks |-> <<0, 1>>],
                       [disjoint |-> TRUE, ranks |-> <<NumIndexImages - 1>>]>>
    /\ cm.average_precisions[1] = ROne
    /\ cm.recalls[2] = <<ROne, RZero>>
    /\ RLeq(cm.mean_average_precision, ROne)
    /\ cm.mean_average_precision # ROne

\* A query whose ok and junk arrays share an id and whose average precision
\* exceeds 1.
OverlapExceedsOne ==
    \E q \in DOMAIN cm_adjusted :
        /\ ~cm_ok_empty[q]
        /\ ~cm_adjusted[q].disjoint
        /\ ~InUnitInterval(cm.average_precisions[q])

---------------------------------------------------------------------------
(* ReadDatasetFile (lines 38-71), the ground-truth part, and               *)
(* ParseEasyMediumHardGroundTruth (lines 74-124).  A dict is a function    *)
(* from its keys to its values.                                            *)

\* Line 34.
GROUND_TRUTH_KEYS == <<"easy", "hard", "junk">>

\* Lines 62-68: the recognised keys the raw record has, each array
\* decremented to zero-indexed identifiers, and the bounding box.
RDF_QueryGroundTruth(raw) ==
    [key \in {k \in Range(GROUND_TRUTH_KEYS) : k \in DOMAIN raw} \cup {"bbx"}
        |-> IF key = "bbx" THEN raw["bbx"]
            ELSE [x \in DOMAIN raw[key] |-> raw[key][x] - 1]]

\* Lines 60-69.
RDF_GroundTruth(gnd) == [q \in DOMAIN gnd |-> RDF_QueryGroundTruth(gnd[q])]

\* np.concatenate of a list of arrays.
RECURSIVE Concatenate(_)
Concatenate(arrays) ==
    IF arrays = <<>> THEN <<>>
    ELSE Head(arrays) \o Concatenate(Tail(arrays))

\* Lines 74-88.
ParseGroundTruth(ok_list, junk_list) ==
    [ok |-> Concatenate(ok_list), junk |-> Concatenate(junk_list)]

\* A hard entry whose junk list was copied from the easy entry.
PEMH_HardEntryCopied(g) ==
    ParseGroundTruth(<<g["hard"]>>, <<g["junk"], g["hard"]>>)

\* Lines 114-116.
PEMH_EasyEntry(g) ==
    ParseGroundTruth(<<g["easy"]>>, <<g["junk"], g["hard"]>>)

\* Lines 117-119.
PEMH_MediumEntry(g) ==
    ParseGroundTruth(<<g["easy"], g["hard"]>>, <<g["junk"]>>)

\* Lines 120-122.
PEMH_HardEntry(g) ==
    ParseGroundTruth(<<g["hard"]>>, <<g["junk"], g["easy"]>>)

\* The subscripts of lines 115-116 in evaluation order: the first key the
\* dict lacks raises KeyError.
PEMH_MissingKeys(g) ==
    SelectSeq(<<"easy", "junk", "hard">>, LAMBDA k : k \notin DOMAIN g)

\* Lines 113-124: the loop from query i on.
RECURSIVE PEMH_Loop(_, _, _)
PEMH_Loop(ground_truth, i, f) ==
    IF i >= Len(ground_truth) THEN [f EXCEPT !.pc = "returned"]
    ELSE LET g == At(ground_truth, i)
         IN  IF PEMH_MissingKeys(g) # <<>>
             THEN [pc |-> "KeyError", key |-> Head(PEMH_MissingKeys(g)),
                   easy_ground_truth |-> <<>>, medium_ground_truth |-> <<>>,
                   hard_ground_truth |-> <<>>]
             ELSE PEMH_Loop(ground_truth, i + 1,
                     [f EXCEPT
                        !.easy_ground_truth =
                            Append(f.easy_ground_truth, PEMH_EasyEntry(g)),
                        !.medium_ground_truth =
                            Append(f.medium_ground_truth, PEMH_MediumEntry(g)),
                        !.hard_ground_truth =
                            Append(f.hard_ground_truth, PEMH_HardEntry(g))])

\* Lines 108-124.
ParseEasyMediumHardGroundTruth(ground_truth) ==
    PEMH_Loop(ground_truth, 0,
              [pc |-> "loop", key |-> "", easy_ground_truth |-> <<>>,
               medium_ground_truth |-> <<>>, hard_ground_truth |-> <<>>])

---------------------------------------------------------------------------
(* Specification of the ground-truth pipeline of main (lines 928-933):     *)
(* ReadDatasetFile, then ParseEasyMediumHardGroundTruth on its result.     *)
(* The records of a file share one set of fields (the dtype of 'gnd'),     *)
(* which holds any of the three optional fields and always 'bbx'.          *)

RawArrays == {SortedSeq(S) : S \in SUBSET (1 .. MaxRawId)}

Bbx == <<0, 0, 1, 1>>

RawRecords(names) ==
    {[key \in names \cup {"bbx"} |-> IF key = "bbx" THEN Bbx ELSE r[key]] :
        r \in [names -> RawArrays]}

\* A file of two queries with different ground truth.
TwoQueryFile ==
    <<[easy |-> <<1>>, hard |-> <<2>>, junk |-> <<>>, bbx |-> Bbx],
      [easy |-> <<2>>, hard |-> <<>>, junk |-> <<1>>, bbx |-> Bbx]>>

RawFiles ==
    UNION {SeqsUpTo(RawRecords(names), MaxFileQueries) :
              names \in SUBSET Range(GROUND_TRUTH_KEYS)}
        \cup {TwoQueryFile}

GtInit ==
    /\ gt_pc = "raw"
    /\ gt_raw \in RawFiles
    /\ gt_ground_truth = <<>>
    /\ gt_parsed = [pc |-> "idle"]
    /\ AdjustIdle
    /\ RankIdle
    /\ MetricsIdle
    /\ LaterIdle

GtReadDatasetFile ==
    /\ gt_pc = "raw"
    /\ gt_ground_truth' = RDF_GroundTruth(gt_raw)
    /\ gt_pc' = "read"
    /\ UNCHANGED <<gt_raw, gt_parsed, adjustVars, rankVars, metricsVars,
                   dupVars, orderVars, fileVars>>

GtParseEasyMediumHard ==
    /\ gt_pc = "read"
    /\ gt_parsed' = ParseEasyMediumHardGroundTruth(gt_ground_truth)
    /\ gt_pc' = "parsed"
    /\ UNCHANGED <<gt_raw, gt_ground_truth, adjustVars, rankVars, metricsVars,
                   dupVars, orderVars, fileVars>>

GtNext == GtReadDatasetFile \/ GtParseEasyMediumHard

SpecGroundTruth == GtInit /\ [][GtNext]_vars

---------------------------------------------------------------------------
(* Claims about ParseEasyMediumHardGroundTruth. *)

Ids(array) == {array[x] : x \in DOMAIN array}

\* C9: for every query i the three outputs hold at position i entries whose
\* identifier sets are: easy ok = easy_i, junk = hard_i \cup junk_i; medium
\* ok = easy_i \cup hard_i, junk = junk_i; hard ok = hard_i, junk = junk_i
\* \cup easy_i; and when easy_i, hard_i, junk_i are pairwise disjoint, ok
\* and junk of every produced entry are disjoint.
C9_ProtocolSets ==
    (gt_pc = "parsed" /\ gt_parsed.pc = "returned") =>
        \A q \in DOMAIN gt_ground_truth :
            LET easy == Ids(gt_ground_truth[q]["easy"])
                hard == Ids(gt_ground_truth[q]["hard"])
                junk == Ids(gt_ground_truth[q]["junk"])
                e == gt_parsed.easy_ground_truth[q]
                m == gt_parsed.medium_ground_truth[q]
                h == gt_parsed.hard_ground_truth[q]
            IN  /\ Ids(e.ok) = easy /\ Ids(e.junk) = hard \cup junk
                /\ Ids(m.ok) = easy \cup hard /\ Ids(m.junk) = junk
                /\ Ids(h.ok) = hard /\ Ids(h.junk) = junk \cup easy
                /\ (easy \cap hard = {} /\ easy \cap junk = {}
                        /\ hard \cap junk = {}) =>
                      /\ Ids(e.ok) \cap Ids(e.junk) = {}
                      /\ Ids(m.ok) \cap Ids(m.junk) = {}
                      /\ Ids(h.ok) \cap Ids(h.junk) = {}

\* The two-query file parsed: the second query's hard entry has no positive
\* and both other identifiers as junk.
C9_Witness ==
    /\ gt_pc = "parsed"
    /\ gt_parsed.pc = "returned"
    /\ gt_raw = TwoQueryFile
    /\ gt_parsed.hard_ground_truth[2].ok = <<>>
    /\ Ids(gt_parsed.hard_ground_truth[2].junk) = {0, 1}
    /\ Ids(gt_parsed.medium_ground_truth[1].ok) = {0, 1}

LacksAtMostOneKey(g) ==
    Cardinality({k \in Range(GROUND_TRUTH_KEYS) : k \notin DOMAIN g}) <= 1

\* C10: for every QueryGroundTruth sequence, records lacking one of the keys
\* easy, hard or junk included, ParseEasyMediumHardGroundTruth completes
\* normally and returns three sequences with one entry per query.
C10_CompletesOnEveryGroundTruth ==
    (gt_pc = "parsed"
        /\ \A q \in DOMAIN gt_ground_truth :
               LacksAtMostOneKey(gt_ground_truth[q])) =>
        /\ gt_parsed.pc = "returned"
        /\ Len(gt_parsed.easy_ground_truth) = Len(gt_ground_truth)
        /\ Len(gt_parsed.medium_ground_truth) = Len(gt_ground_truth)
        /\ Len(gt_parsed.hard_ground_truth) = Len(gt_ground_truth)

---------------------------------------------------------------------------
(* One query whose 'easy' and 'hard' arrays may share identifiers, taken   *)
(* through ParseEasyMediumHardGroundTruth and, as the medium protocol,     *)
(* through ComputeMetrics (the calls of lines 931-933 and 1028-1043).      *)

\* Lines 275-326 for a single query: row is sorted_index_ids[0] and entry is
\* ground_truth[0].
CM_SingleQuery(row, entry, desired) ==
    LET f == CM_Start(1, Len(row), desired)
    IN  IF f.pc # "loop" THEN f
        ELSE CM_Normalize(
                 CM_Query(f, Len(entry.ok) = 0,
                          IF Len(entry.ok) = 0 THEN NoMetrics
                          ELSE CM_QueryMetrics(row, entry.ok, entry.junk,
                                               desired)))

DupDesiredRankLists == {<<1>>, <<1, NumIndexImages>>}

\* Junk arrays over the first two index ids, overlapping 'ok' or not.
DupJunkArrays == {a \in IdArrays : Range(a) \subseteq {0, 1}}

DupInit ==
    /\ \E easy \in IdArrays, hard \in IdArrays, junk \in DupJunkArrays,
          row \in Rankings, desired \in DupDesiredRankLists :
          dup = [pc |-> "read",
                 g |-> [easy |-> easy, hard |-> hard, junk |-> junk],
                 row |-> row, desired |-> desired,
                 medium |-> [ok |-> <<>>, junk |-> <<>>],
                 result |-> [pc |-> "call"],
                 union_result |-> [pc |-> "call"]]
    /\ AdjustIdle
    /\ RankIdle
    /\ MetricsIdle
    /\ GtIdle
    /\ OrderIdle
    /\ FileIdle

\* Lines 117-119 for the query.
DupParse ==
    /\ dup.pc = "read"
    /\ dup' = [dup EXCEPT !.pc = "parsed",
                          !.medium = PEMH_MediumEntry(dup.g)]
    /\ UNCHANGED <<adjustVars, rankVars, metricsVars, gtVars, orderVars,
                   fileVars>>

\* ComputeMetrics on the medium entry, and on the entry whose 'ok' array
\* holds each identifier of easy and hard once.
DupComputeMetrics ==
    /\ dup.pc = "parsed"
    /\ dup' = [dup EXCEPT
                  !.pc = "computed",
                  !.result = CM_SingleQuery(dup.row, dup.medium, dup.desired),
                  !.union_result =
                      CM_SingleQuery(
                          dup.row,
                          [ok |-> SortedSeq(Range(dup.g.easy)
                                               \cup Range(dup.g.hard)),
                           junk |-> dup.medium.junk],
                          dup.desired)]
    /\ UNCHANGED <<adjustVars, rankVars, metricsVars, gtVars, orderVars,
                   fileVars>>

DupNext == DupParse \/ DupComputeMetrics

SpecDuplicates == DupInit /\ [][DupNext]_vars

\* C18: for a query whose easy and hard lists share an identifier, the
\* medium entry (its ok array holds that identifier twice) passed to
\* ComputeMetrics with any permutation row gives the same outcome, the same
\* per-query average precision, precisions and recalls, and the same means
\* as the entry whose ok array is the union without repetition.
C18_DuplicatesIgnored ==
    (/\ dup.pc = "computed"
     /\ Range(dup.g.easy) \cap Range(dup.g.hard) # {}) =>
        /\ Len(dup.medium.ok) >
               Cardinality(Range(dup.g.easy) \cup Range(dup.g.hard))
        /\ dup.result.pc = "returned"
        /\ dup.result = dup.union_result

\* ok = [0, 0, 1] with the row [1, 2, 0]: ranks 0 and 2, as for ok = [0, 1].
C18_Witness ==
    /\ dup.pc = "computed"
    /\ dup.g = [easy |-> <<0>>, hard |-> <<0, 1>>, junk |-> <<>>]
    /\ dup.medium.ok = <<0, 0, 1>>
    /\ dup.row = <<1, 2, 0>>
    /\ dup.desired = <<1, NumIndexImages>>
    /\ dup.result.pc = "returned"
    /\ dup.result.average_precisions = <<Rat(19, 24)>>
    /\ dup.result.precisions = <<<<ROne, Rat(2, 3)>>>>
    /\ dup.result.recalls = <<<<Rat(1, 2), ROne>>>>

---------------------------------------------------------------------------
(* The loop of ComputeMetrics (lines 293-317) with its body run once per   *)
(* query in any order, and split into the part that fills the query's slot *)
(* of the per-query arrays and the part that adds the query's contribution *)
(* to the running sums, the parts of different queries interleaved.  The   *)
(* source runs the body for i = 0, 1, ... in turn (CM_Sequential).         *)

\* What iteration i reads: row i of sorted_index_ids and ground_truth[i].
CM_Iteration(f, i, input) ==
    CM_Query([f EXCEPT !.i = i], Len(input.ok) = 0,
             IF Len(input.ok) = 0 THEN NoMetrics
             ELSE CM_QueryMetrics(input.row, input.ok, input.junk,
                                  f.desired_pr_ranks))

\* Lines 293-326 from iteration f.i on.
RECURSIVE CM_LoopFrom(_, _)
CM_LoopFrom(f, inputs) ==
    IF f.i = f.num_queries THEN CM_Normalize(f)
    ELSE CM_LoopFrom(CM_Iteration(f, f.i, At(inputs, f.i)), inputs)

\* Lines 275-326.
CM_Sequential(inputs, desired) ==
    LET f == CM_Start(Len(inputs), NumIndexImages, desired)
    IN  IF f.pc # "loop" THEN f ELSE CM_LoopFrom(f, inputs)

OrderNumQueries == MaxQueries + 1

OrderRow == [k \in 1 .. NumIndexImages |-> k - 1]

\* A query without positives, and three with different metrics.
OrderInputs ==
    {[row |-> OrderRow, ok |-> <<>>, junk |-> <<>>],
     [row |-> OrderRow, ok |-> <<0>>, junk |-> <<>>],
     [row |-> OrderRow, ok |-> <<NumIndexImages - 1>>, junk |-> <<>>],
     [row |-> OrderRow, ok |-> <<1, NumIndexImages - 1>>, junk |-> <<0>>]}

OrderDesired == <<1, NumIndexImages>>

OrderInit ==
    /\ \E inputs \in [1 .. OrderNumQueries -> OrderInputs] :
          par = [pc |-> "tasks", inputs |-> inputs,
                 f |-> CM_Start(OrderNumQueries, NumIndexImages, OrderDesired),
                 computed |-> {}, joined |-> {},
                 sequential |-> CM_Sequential(inputs, OrderDesired)]
    /\ AdjustIdle
    /\ RankIdle
    /\ MetricsIdle
    /\ GtIdle
    /\ DupIdle
    /\ FileIdle

\* Lines 297-300 and 304-315 for query i: its slot of the per-query arrays.
OrderCompute ==
    /\ par.pc = "tasks"
    /\ \E i \in 0 .. OrderNumQueries - 1 :
          /\ i \notin par.computed
          /\ LET g == CM_Iteration(par.f, i, At(par.inputs, i))
             IN  par' = [par EXCEPT
                           !.computed = par.computed \cup {i},
                           !.f = [par.f EXCEPT
                                    !.average_precisions =
                                        g.average_precisions,
                                    !.precisions = g.precisions,
                                    !.recalls = g.recalls]]
    /\ UNCHANGED <<adjustVars, rankVars, metricsVars, gtVars, dupVars,
                   fileVars>>

\* Lines 301 and 316-317 for query i: its contribution to the sums.
OrderFanIn ==
    /\ par.pc = "tasks"
    /\ \E i \in par.computed \ par.joined :
          LET g == CM_Iteration(par.f, i, At(par.inputs, i))
          IN  par' = [par EXCEPT
                        !.joined = par.joined \cup {i},
                        !.f = [par.f EXCEPT
                                 !.mean_average_precision =
                                     g.mean_average_precision,
                                 !.mean_ap_type = g.mean_ap_type,
                                 !.mean_precisions = g.mean_precisions,
                                 !.mean_recalls = g.mean_recalls,
                                 !.num_empty_gt_queries =
                                     g.num_empty_gt_queries]]
    /\ UNCHANGED <<adjustVars, rankVars, metricsVars, gtVars, dupVars,
                   fileVars>>

\* Lines 320-326, once every query has been added.
OrderNormalize ==
    /\ par.pc = "tasks"
    /\ par.joined = 0 .. OrderNumQueries - 1
    /\ par' = [par EXCEPT
                  !.pc = "done",
                  !.f = CM_Normalize([par.f EXCEPT !.i = OrderNumQueries])]
    /\ UNCHANGED <<adjustVars, rankVars, metricsVars, gtVars, dupVars,
                   fileVars>>

OrderNext == OrderCompute \/ OrderFanIn \/ OrderNormalize

SpecOrder == OrderInit /\ [][OrderNext]_vars

---------------------------------------------------------------------------
(* The metrics file (lines 329-479).  A file is the sequence of its lines  *)
(* and a line is the sequence of its tokens: words, the brackets '[' and   *)
(* ']', integer literals and decimal literals.  White space between        *)
(* tokens is not kept; a word directly followed by '[' stands for the two  *)
(* written without a space, as line 344 writes them.  A Python dict is a   *)
(* function from its keys, with the order in which the keys were inserted  *)
(* kept apart where the code iterates over it.                             *)

Word(text) == [kind |-> "word", text |-> text, n |-> 0, d |-> 1]

Open == [kind |-> "[", text |-> "", n |-> 0, d |-> 1]

Close == [kind |-> "]", text |-> "", n |-> 0, d |-> 1]

NewLine == [kind |-> "nl", text |-> "", n |-> 0, d |-> 1]

\* str() of a NumPy integer.
IntLiteral(k) == [kind |-> "int", text |-> "", n |-> k, d |-> 1]

\* str() of a NumPy float with at most two decimals: digits, a point and
\* the decimals; float() of the literal is the value x again.
FloatLiteral(x) == [kind |-> "float", text |-> "", n |-> x.n, d |-> x.d]

\* The protocol names of the evaluation, in ascending order of str.
ProtocolNames == <<"easy", "hard", "medium">>

\* Line 343: sorted(mean_average_precision.keys()).
SMF_SortedKeys(keys) ==
    SelectSeq(ProtocolNames, LAMBDA name : name \in Range(keys))

\* np.around(x, decimals=2) of a non-negative x: the nearest multiple of
\* 1/100, a tie going to the even one.
Around(x) ==
    LET y == RMul(x, Rat(100, 1))
        q == y.n \div y.d
        r == y.n - q * y.d
    IN  IF 2 * r > y.d \/ (2 * r = y.d /\ q % 2 = 1)
        THEN Rat(q + 1, 100)
        ELSE Rat(q, 100)

\* Lines 345-347: np.around(v * 100, decimals=2).
SMF_Percent(v) == Around(RMul(v, Rat(100, 1)))

RECURSIVE Digits(_)
Digits(k) == IF k < 10 THEN 1 ELSE 1 + Digits(k \div 10)

\* Decimals str() shows for a multiple of 1/100 (none after the point of a
\* whole number inside an array).
Decimals(x) == IF x.d = 1 THEN 0 ELSE IF x.d \in {2, 5, 10} THEN 1 ELSE 2

\* NumPy prints the elements of an array in columns of one width: the
\* longest integer literal, or the longest integer part, the point and the
\* longest run of decimals.
IntColumnWidth(ranks) ==
    IF ranks = <<>> THEN 0 ELSE SetMax({Digits(ranks[k]) : k \in DOMAIN ranks})

FloatColumnWidth(values) ==
    IF values = <<>> THEN 0
    ELSE SetMax({Digits(values[k].n \div values[k].d) : k \in DOMAIN values})
             + 1 + SetMax({Decimals(values[k]) : k \in DOMAIN values})

\* The line width of NumPy's array printing (its 'linewidth' print option).
NumpyLineWidth == 75

\* str() of a one-dimensional array: the elements between brackets, a new
\* line started before an element that would not leave room for the closing
\* bracket within the line width.
ElementsPerLine(width) == (NumpyLineWidth - 1) \div (width + 1)

RECURSIVE ArrayElements(_, _, _)
ArrayElements(literals, k, per_line) ==
    IF k > Len(literals) THEN <<>>
    ELSE (IF k > 1 /\ (k - 1) % per_line = 0 THEN <<NewLine>> ELSE <<>>)
             \o <<literals[k]>> \o ArrayElements(literals, k + 1, per_line)

ArrayStr(literals, width) ==
    <<Open>> \o ArrayElements(literals, 1, ElementsPerLine(width)) \o <<Close>>

\* Line 346: np.array(pr_ranks) as the format prints it.
SMF_RanksStr(pr_ranks) ==
    ArrayStr([k \in DOMAIN pr_ranks |-> IntLiteral(pr_ranks[k])],
             IntColumnWidth(pr_ranks))

\* Lines 346-347: np.around(scores * 100, decimals=2) as the format prints
\* it.
SMF_ScoresStr(scores) ==
    LET percent == [k \in DOMAIN scores |-> SMF_Percent(scores[k])]
    IN  ArrayStr([k \in DOMAIN percent |-> FloatLiteral(percent[k])],
                 FloatColumnWidth(percent))

\* str.splitlines of a text: the lines between its line ends.
RECURSIVE SplitLines(_, _)
SplitLines(text, line) ==
    IF text = <<>> THEN <<line>>
    ELSE IF Head(text) = NewLine
         THEN <<line>> \o SplitLines(Tail(text), <<>>)
         ELSE SplitLines(Tail(text), Append(line, Head(text)))

\* Lines 344-347: the text of one write, without its last line end.
SMF_BlockText(name, pr_ranks, mean_ap, precisions, recalls) ==
    <<Word(name), NewLine,
      Word("  mAP="), FloatLiteral(SMF_Percent(mean_ap)), NewLine,
      Word("  mP@k")>> \o SMF_RanksStr(pr_ranks) \o SMF_ScoresStr(precisions)
        \o <<NewLine, Word("  mR@k")>> \o SMF_RanksStr(pr_ranks)
        \o SMF_ScoresStr(recalls)

\* The frame of a call: keys holds the keys of mean_average_precision in
\* insertion order.
SMF_Frame(keys, mean_ap, precisions, recalls, pr_ranks) ==
    [pc |-> "call", keys |-> keys,
     mean_average_precision |-> mean_ap,
     mean_precisions |-> precisions, mean_recalls |-> recalls,
     pr_ranks |-> pr_ranks, sorted_keys |-> <<>>, k |-> 0,
     file |-> <<>>, opened |-> FALSE, error_key |-> ""]

\* Lines 342-343: opening for writing leaves an empty file; the keys are
\* sorted once, before the loop.
SMF_Open(f) ==
    [f EXCEPT !.pc = "loop", !.opened = TRUE, !.file = <<>>,
              !.sorted_keys = SMF_SortedKeys(f.keys)]

\* Lines 343-347, one iteration: the arguments of format are evaluated
\* first, and a key the precision or recall dict lacks raises KeyError
\* before anything of this block is written; what earlier iterations wrote
\* stays in the file, which the with statement closes.
SMF_Write(f) ==
    LET name == At(f.sorted_keys, f.k)
    IN  IF name \notin DOMAIN f.mean_precisions
               \/ name \notin DOMAIN f.mean_recalls
        THEN [f EXCEPT !.pc = "KeyError", !.error_key = name]
        ELSE [f EXCEPT
                !.file = f.file \o SplitLines(
                    SMF_BlockText(name, f.pr_ranks,
                                  f.mean_average_precision[name],
                                  f.mean_precisions[name],
                                  f.mean_recalls[name]), <<>>),
                !.k = f.k + 1]

\* Line 343 with the keys used up: the file is closed and the call returns.
SMF_Close(f) == [f EXCEPT !.pc = "returned"]

---------------------------------------------------------------------------
(* ReadMetricsFile and its parsers (lines 350-479).                        *)

\* str.split(sep) on tokens: the runs between the occurrences of sep.
RECURSIVE SplitAt(_, _, _)
SplitAt(tokens, sep, run) ==
    IF tokens = <<>> THEN <<run>>
    ELSE IF Head(tokens) = sep
         THEN <<run>> \o SplitAt(Tail(tokens), sep, <<>>)
         ELSE SplitAt(Tail(tokens), sep, Append(run, Head(tokens)))

IsNumber(token) == token.kind \in {"int", "float"}

NoEntries == [error |-> "", entries |-> <<>>]

\* Lines 364-372.  No prefix at the start of the line raises ValueError
\* (line 369); fewer than ind + 1 runs between '[' raise IndexError (line
\* 371); otherwise the entries are the tokens of run ind up to its ']'.
ParseSpaceSeparatedStringsInBrackets(line, prefixes, ind) ==
    IF ~(/\ Len(line) >= 2
         /\ line[1] \in {Word(prefix) : prefix \in prefixes}
         /\ line[2] = Open)
    THEN [NoEntries EXCEPT !.error = "ValueError"]
    ELSE LET runs == SplitAt(SubSeq(line, 3, Len(line)), Open, <<>>)
         IN  IF ind >= Len(runs)
             THEN [NoEntries EXCEPT !.error = "IndexError"]
             ELSE [NoEntries EXCEPT
                      !.entries = Head(SplitAt(At(runs, ind), Close, <<>>))]

NoList == [error |-> "", message |-> "", list |-> <<>>]

\* Lines 387-390: int() accepts an integer literal only.
ParsePrRanks(line) ==
    LET parsed == ParseSpaceSeparatedStringsInBrackets(line, {"  mP@k"}, 0)
    IN  IF parsed.error # ""
        THEN [NoList EXCEPT !.error = parsed.error, !.message = "prefix"]
        ELSE IF \E k \in DOMAIN parsed.entries :
                    parsed.entries[k].kind # "int"
        THEN [NoList EXCEPT !.error = "ValueError", !.message = "int"]
        ELSE [NoList EXCEPT
                 !.list = [k \in DOMAIN parsed.entries |->
                               parsed.entries[k].n]]

\* Lines 406-415: float() accepts integer and decimal literals; then the
\* number of scores is compared with num_pr_ranks.
ParsePrScores(line, num_pr_ranks) ==
    LET parsed == ParseSpaceSeparatedStringsInBrackets(
                      line, {"  mP@k", "  mR@k"}, 1)
    IN  IF parsed.error # ""
        THEN [NoList EXCEPT !.error = parsed.error, !.message = "prefix"]
        ELSE IF \E k \in DOMAIN parsed.entries :
                    ~IsNumber(parsed.entries[k])
        THEN [NoList EXCEPT !.error = "ValueError", !.message = "float"]
        ELSE IF Len(parsed.entries) # num_pr_ranks
        THEN [NoList EXCEPT !.error = "ValueError", !.message = "scores"]
        ELSE [NoList EXCEPT
                 !.list = [k \in DOMAIN parsed.entries |->
                               Rat(parsed.entries[k].n, parsed.entries[k].d)]]

\* Lines 457-458: float(line.split('=')[1]).  A line without '=' raises
\* IndexError; what follows the first '=' must be one number.
RMF_ParseMeanAveragePrecision(line) ==
    LET equals == {k \in DOMAIN line : line[k] = Word("  mAP=")}
        first == SetMin(equals)
        later == {k \in equals : k > first}
        last == IF later = {} THEN Len(line) ELSE SetMin(later) - 1
        field == SubSeq(line, first + 1, last)
    IN  IF equals = {}
        THEN [error |-> "IndexError", value |-> RZero]
        ELSE IF Len(field) = 1 /\ IsNumber(field[1])
        THEN [error |-> "", value |-> Rat(field[1].n, field[1].d)]
        ELSE [error |-> "ValueError", value |-> RZero]

\* x / 100.0 of every element.
Hundredth(list) == [k \in DOMAIN list |-> RDivInt(list[k], 100)]

\* Lines 438-447.
RMF_Start(num_lines) ==
    LET f == [pc |-> "loop", message |-> "", num_lines |-> num_lines,
              i |-> 0, protocols |-> {}, pr_ranks |-> <<>>,
              mean_average_precision |-> <<>>, mean_precisions |-> <<>>,
              mean_recalls |-> <<>>]
    IN  IF num_lines % 4 # 0
        THEN [f EXCEPT !.pc = "ValueError", !.message = "lines"]
        ELSE f

\* Lines 462-467: an empty pr_ranks counts as not set yet.
RMF_Established(f, parsed_pr_ranks) ==
    IF f.pr_ranks = <<>> THEN [error |-> "", list |-> parsed_pr_ranks]
    ELSE IF parsed_pr_ranks # f.pr_ranks
    THEN [error |-> "ValueError", list |-> f.pr_ranks]
    ELSE [error |-> "", list |-> f.pr_ranks]

\* A score check that accepts any number of scores.
RMF_ScoresUnchecked(block, k, num_pr_ranks) ==
    ParsePrScores(
        At(block, k),
        Len(ParseSpaceSeparatedStringsInBrackets(
                At(block, k), {"  mP@k", "  mR@k"}, 1).entries))

\* Lines 470-477: the scores of line k of the block.
RMF_Scores(block, k, num_pr_ranks) == ParsePrScores(At(block, k), num_pr_ranks)

\* Lines 448-477, one iteration on the four lines of a block.
RMF_Block(f, block) ==
    LET protocol == At(block, 0)
        mean_ap == RMF_ParseMeanAveragePrecision(At(block, 1))
        parsed_pr_ranks == ParsePrRanks(At(block, 2))
        established == RMF_Established(f, parsed_pr_ranks.list)
        precisions == RMF_Scores(block, 2, Len(established.list))
        recalls == RMF_Scores(block, 3, Len(established.list))
    IN  IF protocol \in f.protocols
        THEN [f EXCEPT !.pc = "ValueError", !.message = "protocol"]
        ELSE IF mean_ap.error # ""
        THEN [f EXCEPT !.pc = mean_ap.error, !.message = "mAP"]
        ELSE IF parsed_pr_ranks.error # ""
        THEN [f EXCEPT !.pc = parsed_pr_ranks.error,
                       !.message = parsed_pr_ranks.message]
        ELSE IF established.error # ""
        THEN [f EXCEPT !.pc = "ValueError", !.message = "ranks"]
        ELSE IF precisions.error # ""
        THEN [f EXCEPT !.pc = precisions.error,
                       !.message = precisions.message]
        ELSE IF recalls.error # ""
        THEN [f EXCEPT !.pc = recalls.error, !.message = recalls.message]
        ELSE [f EXCEPT
                !.i = f.i + 4,
                !.protocols = f.protocols \cup {protocol},
                !.pr_ranks = established.list,
                !.mean_average_precision =
                    (protocol :> RDivInt(mean_ap.value, 100))
                        @@ f.mean_average_precision,
                !.mean_precisions =
                    (protocol :> Hundredth(precisions.list))
                        @@ f.mean_precisions,
                !.mean_recalls =
                    (protocol :> Hundredth(recalls.list)) @@ f.mean_recalls]

\* Line 479.
RMF_Return(f) == [f EXCEPT !.pc = "returned"]

\* Lines 435-479 on the lines of a file, from block f.i on.
RECURSIVE RMF_Loop(_, _)
RMF_Loop(f, lines) ==
    IF f.pc # "loop" THEN f
    ELSE IF f.i >= f.num_lines THEN RMF_Return(f)
    ELSE RMF_Loop(RMF_Block(f, SubSeq(lines, f.i + 1, f.i + 4)), lines)

ReadMetricsFile(lines) == RMF_Loop(RMF_Start(Len(lines)), lines)

---------------------------------------------------------------------------
(* Specification of SaveMetricsFile followed by ReadMetricsFile on the     *)
(* file written.  The three dicts hold scores of the unit interval; the    *)
(* precision and recall dicts have the keys of mean_average_precision or   *)
(* lack one of them.  The scores of an array are within a factor 1000 of   *)
(* each other, the range in which NumPy prints an array in positional      *)
(* notation.                                                               *)

\* Scores; 2469/20000 and 2471/20000 are 12.345 and 12.355 percent, half
\* way between two multiples of 1/100.
ScorePool ==
    <<Rat(4, 5), Rat(1, 3), Rat(1, 2), Rat(2469, 20000), ROne, Rat(2, 3),
      Rat(2471, 20000), Rat(1, 8)>>

\* The score at position k of field number c of the protocol number r.
PoolScore(offset, r, c, k) ==
    ScorePool[((offset + 3 * r + c + k) % Len(ScorePool)) + 1]

NameNumber(name) == CHOOSE r \in DOMAIN ProtocolNames : ProtocolNames[r] = name

\* The shortest list of decimals with two places that NumPy prints on two
\* lines.
LongRanks == [k \in 1 .. ElementsPerLine(Len(<<3, 3, 0, 3, 3>>)) + 1 |-> k]

SavePrRanks == {<<>>, <<1>>, <<1, 5>>, LongRanks}

\* The orders in which a dict can have received its keys.
KeyOrders ==
    {keys \in SeqsUpTo(Range(ProtocolNames), Len(ProtocolNames)) :
        \A x, y \in DOMAIN keys : x # y => keys[x] # keys[y]}

\* The key sets of a dict that has every name, or lacks one.
KeySetsNear(names) == {names} \cup {names \ {name} : name \in names}

ReadNotCalled == [pc |-> "call"]

FileInit ==
    /\ \E keys \in KeyOrders, pr_ranks \in SavePrRanks,
          offset \in 0 .. Len(ScorePool) - 1 :
          \E p_keys \in KeySetsNear(Range(keys)),
             r_keys \in KeySetsNear(Range(keys)) :
             smf = SMF_Frame(
                 keys,
                 [name \in Range(keys) |->
                     PoolScore(offset, NameNumber(name), 0, 0)],
                 [name \in p_keys |->
                     [k \in DOMAIN pr_ranks |->
                         PoolScore(offset, NameNumber(name), 1, k)]],
                 [name \in r_keys |->
                     [k \in DOMAIN pr_ranks |->
                         PoolScore(offset, NameNumber(name), 2, k)]],
                 pr_ranks)
    /\ rmf = ReadNotCalled
    /\ rmf_blocks = <<>>
    /\ AdjustIdle
    /\ RankIdle
    /\ MetricsIdle
    /\ GtIdle
    /\ DupIdle
    /\ OrderIdle

FileSaveOpen ==
    /\ smf.pc = "call"
    /\ smf' = SMF_Open(smf)
    /\ UNCHANGED <<rmf, rmf_blocks, adjustVars, rankVars, metricsVars, gtVars,
                   dupVars, orderVars>>

FileSaveWrite ==
    /\ smf.pc = "loop"
    /\ smf.k < Len(smf.sorted_keys)
    /\ smf' = SMF_Write(smf)
    /\ UNCHANGED <<rmf, rmf_blocks, adjustVars, rankVars, metricsVars, gtVars,
                   dupVars, orderVars>>

FileSaveClose ==
    /\ smf.pc = "loop"
    /\ smf.k = Len(smf.sorted_keys)
    /\ smf' = SMF_Close(smf)
    /\ UNCHANGED <<rmf, rmf_blocks, adjustVars, rankVars, metricsVars, gtVars,
                   dupVars, orderVars>>

FileReadBack ==
    /\ smf.pc = "returned"
    /\ rmf = ReadNotCalled
    /\ rmf' = ReadMetricsFile(smf.file)
    /\ UNCHANGED <<smf, rmf_blocks, adjustVars, rankVars, metricsVars, gtVars,
                   dupVars, orderVars>>

FileNext == FileSaveOpen \/ FileSaveWrite \/ FileSaveClose \/ FileReadBack

SpecMetricsFile == FileInit /\ [][FileNext]_vars

---------------------------------------------------------------------------
(* Claims about SaveMetricsFile and the round trip. *)

\* The three dicts of the call have the same keys.
SameProtocolNames ==
    /\ DOMAIN smf.mean_precisions = DOMAIN smf.mean_average_precision
    /\ DOMAIN smf.mean_recalls = DOMAIN smf.mean_average_precision

\* The names of a set in ascending order.
RECURSIVE AscendingNames(_)
AscendingNames(names) ==
    IF names = {} THEN <<>>
    ELSE LET first == CHOOSE x \in names :
                          \A y \in names : NameNumber(x) <= NameNumber(y)
         IN  <<first>> \o AscendingNames(names \ {first})

\* C11: for dicts that share the same n protocol names, SaveMetricsFile
\* writes exactly 4*n lines, one block of four lines per protocol (the name,
\* the mAP line, the mP@k line, the mR@k line), the blocks in ascending
\* order of the name whatever the insertion order of the keys.
C11_FourLinesPerProtocol ==
    (smf.pc = "returned" /\ SameProtocolNames) =>
        LET names == AscendingNames(DOMAIN smf.mean_average_precision)
        IN  /\ Len(smf.file) = 4 * Len(names)
            /\ \A b \in DOMAIN names :
                  /\ smf.file[4 * b - 3] = <<Word(names[b])>>
                  /\ Head(smf.file[4 * b - 2]) = Word("  mAP=")
                  /\ Head(smf.file[4 * b - 1]) = Word("  mP@k")
                  /\ Head(smf.file[4 * b]) = Word("  mR@k")

\* round(v * 100, 2) / 100: the multiple of 1/10000 nearest to v, the even
\* one of two that are equally near.
ClaimRounded(v) ==
    LET below == (v.n * 10000) \div v.d
        near(h) == Abs(v.n * 10000 - h * v.d)
        h == CHOOSE x \in {below, below + 1} :
                 \A y \in {below, below + 1} :
                     \/ near(x) < near(y)
                     \/ near(x) = near(y) /\ (x % 2 = 0 \/ x = y)
    IN  Rat(h, 10000)

NameLine(name) == <<Word(name)>>

\* C15: for metrics with at least one protocol, scores in [0,1] and a
\* non-empty rank list, ReadMetricsFile on the file SaveMetricsFile wrote
\* returns, with the same protocol names, the same rank list, and every
\* mean AP, precision and recall equal to the original rounded to two
\* decimals on the percent scale.
C15_RoundTrip ==
    (/\ rmf # ReadNotCalled
     /\ SameProtocolNames
     /\ smf.keys # <<>>
     /\ smf.pr_ranks # <<>>) =>
        /\ rmf.pc = "returned"
        /\ rmf.pr_ranks = smf.pr_ranks
        /\ DOMAIN rmf.mean_average_precision
              = {NameLine(name) : name \in Range(smf.keys)}
        /\ DOMAIN rmf.mean_precisions = DOMAIN rmf.mean_average_precision
        /\ DOMAIN rmf.mean_recalls = DOMAIN rmf.mean_average_precision
        /\ \A name \in Range(smf.keys) :
              /\ rmf.mean_average_precision[NameLine(name)]
                    = ClaimRounded(smf.mean_average_precision[name])
              /\ rmf.mean_precisions[NameLine(name)]
                    = [k \in DOMAIN smf.pr_ranks |->
                          ClaimRounded(smf.mean_precisions[name][k])]
              /\ rmf.mean_recalls[NameLine(name)]
                    = [k \in DOMAIN smf.pr_ranks |->
                          ClaimRounded(smf.mean_recalls[name][k])]

\* C19: SaveMetricsFile is all-or-nothing: when a protocol name of
\* mean_average_precision is missing from mean_precisions or mean_recalls,
\* the call fails before any block has been written, so the file never
\* holds the blocks of only some of the protocols.
C19_AllOrNothing ==
    /\ (~SameProtocolNames /\ smf.pc \notin {"call", "loop"})
           => smf.pc = "KeyError"
    /\ smf.pc = "KeyError" => smf.file = <<>>

---------------------------------------------------------------------------
(* Specification of one ReadMetricsFile call on any file.  The call learns *)
(* the number of lines first (line 438) and the lines of a block when its  *)
(* iteration reads them, so they are drawn there.  A block has a protocol  *)
(* name, a well-formed mAP line, and precision and recall lines with any   *)
(* rank list and any number of scores; rmf_blocks keeps the blocks read.   *)

\* Largest number of blocks of a file.
MaxFileBlocks == 3

ReadRankLists == {<<>>, <<1>>, <<5>>, <<1, 5>>}

\* The scores of a precision or recall line with the given number of them.
ReadScores(count) == [k \in 1 .. count |-> Rat(k, 10)]

ReadScoreCounts == 0 .. 2

\* The line '  mP@k[ranks] [scores]' or '  mR@k[ranks] [scores]'.
ReadPrLine(prefix, ranks, count) ==
    <<Word(prefix)>> \o SMF_RanksStr(ranks) \o SMF_ScoresStr(ReadScores(count))

ReadBlocks ==
    {<<<<Word(name)>>,
       <<Word("  mAP="), FloatLiteral(Rat(80, 1))>>,
       ReadPrLine("  mP@k", ranks, p_count),
       ReadPrLine("  mR@k", ranks, r_count)>> :
        name \in Range(ProtocolNames), ranks \in ReadRankLists,
        p_count \in ReadScoreCounts, r_count \in ReadScoreCounts}

ReadInit ==
    /\ rmf = ReadNotCalled
    /\ rmf_blocks = <<>>
    /\ smf = [pc |-> "idle"]
    /\ AdjustIdle
    /\ RankIdle
    /\ MetricsIdle
    /\ GtIdle
    /\ DupIdle
    /\ OrderIdle

ReadOpen ==
    /\ rmf = ReadNotCalled
    /\ \E num_lines \in 0 .. 4 * MaxFileBlocks : rmf' = RMF_Start(num_lines)
    /\ UNCHANGED <<smf, rmf_blocks, adjustVars, rankVars, metricsVars, gtVars,
                   dupVars, orderVars>>

ReadBlock ==
    /\ rmf.pc = "loop"
    /\ rmf.i < rmf.num_lines
    /\ \E block \in ReadBlocks :
          /\ rmf' = RMF_Block(rmf, block)
          /\ rmf_blocks' = Append(rmf_blocks, block)
    /\ UNCHANGED <<smf, adjustVars, rankVars, metricsVars, gtVars, dupVars,
                   orderVars>>

ReadReturn ==
    /\ rmf.pc = "loop"
    /\ rmf.i >= rmf.num_lines
    /\ rmf' = RMF_Return(rmf)
    /\ UNCHANGED <<smf, rmf_blocks, adjustVars, rankVars, metricsVars, gtVars,
                   dupVars, orderVars>>

ReadNext == ReadOpen \/ ReadBlock \/ ReadReturn

SpecRead == ReadInit /\ [][ReadNext]_vars

---------------------------------------------------------------------------
(* Claims about ReadMetricsFile. *)

\* The position of the first token of a kind on a line.
FirstOf(line, token) == SetMin({k \in DOMAIN line : line[k] = token})

\* The numbers between the bracket pair number pair of a line.
RECURSIVE Bracketed(_, _)
Bracketed(line, pair) ==
    LET open == FirstOf(line, Open)
        close == FirstOf(line, Close)
    IN  IF pair = 1
        THEN [k \in 1 .. close - open - 1 |-> line[open + k].n]
        ELSE Bracketed(SubSeq(line, close + 1, Len(line)), pair - 1)

\* The rank list of a block: the first bracket pair of its precision line.
BlockRanks(block) == Bracketed(block[3], 1)

\* The number of scores a precision or recall line carries.
ScoreCount(line) == Len(Bracketed(line, 2))

C13_InconsistentRanksRejected ==
    rmf.pc = "returned" =>
        \A a, b \in DOMAIN rmf_blocks :
            BlockRanks(rmf_blocks[a]) = BlockRanks(rmf_blocks[b])

\* C14: whenever ReadMetricsFile returns, the precision and recall arrays of
\* every protocol have len(pr_ranks) entries, pr_ranks being the list it
\* returns, and the three dicts have the same keys.
C14_ReturnedShapes ==
    rmf.pc = "returned" =>
        /\ DOMAIN rmf.mean_precisions = DOMAIN rmf.mean_average_precision
        /\ DOMAIN rmf.mean_recalls = DOMAIN rmf.mean_average_precision
        /\ \A protocol \in DOMAIN rmf.mean_average_precision :
              /\ Len(rmf.mean_precisions[protocol]) = Len(rmf.pr_ranks)
              /\ Len(rmf.mean_recalls[protocol]) = Len(rmf.pr_ranks)

=============================================================================
